---- MODULE Spec2Model ----
(***************************************************************************)
(* Yamaha PSS-790 skeleton drivers: the ROM address-line descrambling      *)
(* (transmute_program_rom), the driver start-up sequence, the program      *)
(* address map / ROM set tables and the periodic interrupt-flag hack.      *)
(*                                                                         *)
(* Two drivers are modelled: "part_000" (the driver that calls the         *)
(* descrambling) and "ympss790" (src/mame/yamaha/ympss790.cpp, whose       *)
(* descrambling loop is commented out).                                    *)
(*                                                                         *)
(* Memory images are byte buffers.  Every copy in the code moves whole,    *)
(* block-aligned runs of block_size bytes, so the model tracks the first   *)
(* NumLanes bytes of every 256-byte block.  The code only ever moves       *)
(* bytes, so a tracked byte is held as its tag: the address it was loaded  *)
(* at (or Zeroed, Garbage); its value is Val of the tag.                   *)
(*                                                                         *)
(* Spec  : a driver from configuration to the running machine; every call  *)
(*         of transmute_program_rom is one step.                           *)
(* SpecT : transmute_program_rom applied, once and then a second time, to  *)
(*         a region of any size and content in the bounds, one loop        *)
(*         iteration per step.                                             *)
(***************************************************************************)
EXTENDS Integers, Sequences, FiniteSets, TLC

\* ------------------------------------------------------------------ bounds
\* tracked bytes per 256-byte block (byte indices 0..NumLanes-1)
NumLanes == 2
\* largest region handed to the transform in isolation, in whole chunks
MaxChunks == 2
\* emulated time is explored up to MaxMsec milliseconds
MaxMsec == 3
\* emulated time advances in steps of 1/TicksPerMsec ms
TicksPerMsec == 2
\* width of the modelled low part of the interrupt-flag register
IFBits == 4

\* ------------------------------------------------------------- arithmetic
Pow2(n) == 2 ^ n
Bit(x, n) == (x \div Pow2(n)) % 2

RECURSIVE BitOr(_, _, _)
BitOr(a, b, n) ==
    IF n = 0 THEN 0
    ELSE (IF a % 2 = 1 \/ b % 2 = 1 THEN 1 ELSE 0)
         + 2 * BitOr(a \div 2, b \div 2, n - 1)

\* bitswap<9>(val, b8, ..., b0): result bit 8 is bit b8 of val, ..., result
\* bit 0 is bit b0 of val; tbl lists b8 first
RECURSIVE bitswap(_, _, _)
bitswap(val, tbl, k) ==
    IF k > Len(tbl) THEN 0
    ELSE Bit(val, tbl[k]) * Pow2(Len(tbl) - k) + bitswap(val, tbl, k + 1)

\* ------------------------------------------------- transmute_program_rom
\* a 32 KiB chunk, as the comments of the routine word it
chunk_size_32k == 32768
chunk_size == 131072
block_size == 256
\* an inner loop that stops one block short
block_count_short == (chunk_size \div block_size) - 1
block_count == chunk_size \div block_size

\* a wiring table that feeds chip input A12 twice
scramble_dup == <<10, 15, 11, 9, 8, 13, 14, 12, 12>>
\* the PSR-400 scrambling, which the routine keeps in a comment
scramble_psr400 == <<9, 15, 10, 11, 8, 14, 16, 13, 12>>
\* PSS-790 scrambling: chip inputs A10 A15 A11 A9 A8 A13 A14 A16 A12
scramble == <<10, 15, 11, 9, 8, 13, 14, 16, 12>>

\* the swapped index shifted by 9 instead of 8
transmuted_offset_shl9(off) == bitswap(off, scramble, 1) * 512
\* transmuted_offset = bitswap<9>(block_offset, ...) << 8 (a u32; the value
\* is below 2^17, so the width never matters)
transmuted_offset(off) == bitswap(off, scramble, 1) * 256

\* An image of n bytes (n a multiple of block_size) is the sequence of its
\* tracked bytes: those at byte indices 0..NumLanes-1 of every block.
Cells(n) == (n \div block_size) * NumLanes
\* the address of the k-th tracked byte, and the place of address a
AddrOf(k) == ((k - 1) \div NumLanes) * block_size + ((k - 1) % NumLanes)
Idx(a) == (a \div block_size) * NumLanes + (a % block_size) + 1
\* the tracked addresses of a buffer of n bytes
Tracked(n) == {AddrOf(k) : k \in 1..Cells(n)}
\* the byte of image img at tracked address a
At(img, a) == img[Idx(a)]

\* tag of a byte of the value-initialised std::vector<u8> chunk(chunk_size)
Zeroed == -2
\* tag of a byte read from outside the region
Garbage == -1

\* ------------------------------------------------------- driver tables
Drivers == {"part_000", "ympss790"}

\* ROM_REGION(size, name, 0) entries of ROM_START(pss790)
RomSet(d) ==
    IF d = "part_000"
    THEN [r \in {"program", "gew6"} |-> 1048576]
    ELSE [r \in {"program", "abc", "gew6"} |->
            CASE r = "program" -> 0
              [] r = "abc" -> 524288
              [] OTHER -> 1048576]

\* ROM_LOAD / ROM_RELOAD entries of the CPU-visible regions:
\* file, offset in the region, length
RomLoads(d, r) ==
    IF d = "part_000" /\ r = "program"
    THEN << [file |-> "ic15", at |-> 0, len |-> 131072],
            [file |-> "ic15", at |-> 131072, len |-> 131072],
            [file |-> "ic15", at |-> 262144, len |-> 131072],
            [file |-> "ic15", at |-> 393216, len |-> 131072],
            [file |-> "ic5", at |-> 524288, len |-> 524288] >>
    ELSE IF d = "ympss790" /\ r = "program"
    THEN << [file |-> "ic15", at |-> 0, len |-> 131072] >>
    ELSE IF d = "ympss790" /\ r = "abc"
    THEN << [file |-> "ic5", at |-> 0, len |-> 524288] >>
    ELSE << >>

\* map(start, end).rom().region(name, 0) entries of program_map
\* (the same lines in both drivers)
program_map(d) ==
    << [start |-> 0, end |-> 131071, region |-> "program", offset |-> 0],
       [start |-> 524288, end |-> 524287, region |-> "abc", offset |-> 0] >>

\* the transmute_program_rom(memregion(...)) calls of driver_start, in order
driver_start_calls(d) ==
    IF d = "part_000" THEN <<"program", "abc">> ELSE << >>

\* ------------------------------------------------------------ ROM content
\* contents a dump may have: sequential byte values, or values that differ
\* from block to block
Patterns == {"seq", "addr"}
FileByte(p, file, k) ==
    IF p = "seq" THEN k % 256
    ELSE (k + (k \div block_size) + (IF file = "ic5" THEN 7 ELSE 0)) % 256

\* the regions of a ROM set the CPU or driver_start touches
CpuRegions(d) == (DOMAIN RomSet(d)) \ {"gew6"}

\* the value loaded at address a of region r: that of the last load covering
\* a; a region on its own ("none") holds one file
LoadedByte(d, r, p, a) ==
    LET ls == RomLoads(d, r)
        hit == {i \in 1..Len(ls) : ls[i].at <= a /\ a < ls[i].at + ls[i].len}
    IN  IF d = "none" THEN FileByte(p, "rom", a)
        ELSE IF hit = {} THEN 0
        ELSE LET i == CHOOSE j \in hit : \A h \in hit : h <= j
             IN  FileByte(p, ls[i].file, a - ls[i].at)

\* a freshly loaded region of n bytes: every byte where it was loaded
LoadedRegion(n) == [size |-> n, data |-> [k \in 1..Cells(n) |-> AddrOf(k)]]

\* region sizes tried in isolation: whole chunks, and whole chunks plus 32 KiB
Sizes ==
    {k * chunk_size : k \in 0..MaxChunks}
    \cup {k * chunk_size + chunk_size_32k : k \in 0..MaxChunks - 1}

\* ------------------------------------------------------------------ timer
\* attotime::from_msec(n), in time steps
from_msec(n) == n * TicksPerMsec
MaxNow == MaxMsec * TicksPerMsec

\* m_hack_timer->adjust(start_delay, 0, period), armed late and slow
hack_timer_lazy(t) ==
    [armed |-> TRUE, expire |-> t + from_msec(2), period |-> from_msec(2)]
\* m_hack_timer->adjust(attotime::from_msec(1), 0, attotime::from_msec(1))
hack_timer(t) ==
    [armed |-> TRUE, expire |-> t + from_msec(1), period |-> from_msec(1)]

\* a callback that stores the bit instead of or-ing it in
interrupt_hack_store(if_reg) == Pow2(3)
\* state_int(MN1880_IF) | (1 << 3)
interrupt_hack_value(if_reg) == BitOr(if_reg, Pow2(3), IFBits)

VARIABLES
    driver,       \* which driver is configured ("none": transform alone)
    pat,          \* the content pattern of the ROM files
    phase,        \* "harness", "config", "driver_start", "machine_start",
                  \* "running", "crashed"
    call,         \* index of the next statement of driver_start
    runs,         \* region name -> completed transmute_program_rom calls
    mem,          \* memory regions: name -> [size, data]
    pc,           \* "idle", "outer", "inner", "done", "fault"
    region,       \* name of the region being transmuted
    rom_size,     \* region->bytes()
    block_offset, \* loop variable of the outer loop
    blocks,       \* loop variable of the inner loop
    chunk,        \* the temporary buffer
    chunk_base,   \* block_offset at the last chunk copy (history)
    srcs,         \* source offsets used since the last chunk copy (history)
    copies,       \* block copies done in this call (history)
    last,         \* the last block copy (history)
    oob,          \* an access has left its buffer
    after1,       \* the image after the first completed call (history)
    timer,        \* m_hack_timer
    now,          \* emulated time, in time steps
    fired,        \* runs of interrupt_hack (history)
    MN1880_IF     \* CPU interrupt-flag register (low IFBits bits)

tvars == <<pc, region, rom_size, block_offset, blocks, chunk, chunk_base,
           srcs, copies, last>>
mvars == <<timer, now, fired, MN1880_IF>>
vars == <<driver, pat, phase, call, runs, mem, tvars, oob, after1, mvars>>

NoCopy == [dst |-> -1, src |-> -1, off |-> -1, inchunk |-> TRUE]
NoImage == << >>
NoTimer == [armed |-> FALSE, expire |-> 0, period |-> 0]

\* the value of a byte of region r, from its tag
Val(r, tag) ==
    IF tag = Zeroed THEN 0
    ELSE IF tag = Garbage THEN 170
    ELSE LoadedByte(driver, r, pat, tag)

TInit ==
    /\ pc = "idle"
    /\ region = ""
    /\ rom_size = 0
    /\ block_offset = 0
    /\ blocks = 0
    /\ chunk = NoImage
    /\ chunk_base = 0
    /\ srcs = {}
    /\ copies = 0
    /\ last = NoCopy
    /\ oob = FALSE
    /\ after1 = NoImage

MInit ==
    /\ timer = NoTimer
    /\ now = 0
    /\ fired = 0
    /\ MN1880_IF = 0

\* a configured driver with its ROM set loaded
Init ==
    /\ driver \in Drivers
    /\ pat \in Patterns
    /\ phase = "config"
    /\ call = 1
    /\ runs = [r \in {"program", "abc"} |-> 0]
    /\ mem = [r \in CpuRegions(driver) |-> LoadedRegion(RomSet(driver)[r])]
    /\ TInit
    /\ MInit

\* a region on its own, about to be transmuted
InitT ==
    /\ driver = "none"
    /\ pat \in Patterns
    /\ phase = "harness"
    /\ call = 1
    /\ runs = [r \in {"rom"} |-> 0]
    /\ \E n \in Sizes : mem = [r \in {"rom"} |-> LoadedRegion(n)]
    /\ TInit
    /\ MInit

\* ---------------------------------------------- transmute_program_rom
\* std::vector<u8> chunk(chunk_size)
FreshChunk == [k \in 1..Cells(chunk_size) |-> Zeroed]

\* std::copy(&base[off], &base[off + chunk_size], chunk.begin()) on a region
\* img of size bytes; what lies past the end of the region reads as garbage
read_chunk(img, size, off) ==
    [k \in 1..Cells(chunk_size) |->
        IF off + AddrOf(k) < size THEN At(img, off + AddrOf(k)) ELSE Garbage]

\* reading the region itself instead of the temporary copy
chunk_at_inplace(img, chk, off, k) ==
    LET a == (off \div chunk_size) * chunk_size + k
    IN  IF Idx(a) <= Len(img) THEN At(img, a) ELSE Garbage
\* the byte copy_n reads at index k of the temporary buffer chk, while the
\* region is img and the destination block is at off
chunk_at(img, chk, off, k) ==
    IF k < chunk_size THEN At(chk, k) ELSE Garbage

\* std::copy_n(&chunk[t], block_size, &base[dst]) on a region img of size
\* bytes, from byte index i on; bytes written past the end of the region
\* are not kept
RECURSIVE copy_n(_, _, _, _, _, _)
copy_n(img, chk, size, t, dst, i) ==
    IF i >= NumLanes THEN img
    ELSE copy_n(IF dst + i < size
                THEN [img EXCEPT ![Idx(dst + i)] = chunk_at(img, chk, dst, t + i)]
                ELSE img,
                chk, size, t, dst, i + 1)

\* iterations lo..hi-1 of the inner loop, in order, for the chunk copied at
\* block_offset off (split in halves, the first half evaluated before the
\* second is entered, to keep the evaluation shallow)
RECURSIVE inner_loop(_, _, _, _, _, _)
inner_loop(img, chk, size, off, lo, hi) ==
    IF hi <= lo THEN img
    ELSE IF hi = lo + 1
    THEN copy_n(img, chk, size, transmuted_offset(off + lo * block_size),
                off + lo * block_size, 0)
    ELSE LET mid == (lo + hi) \div 2
             half == inner_loop(img, chk, size, off, lo, mid)
         IN  IF Len(half) = Len(img)
             THEN inner_loop(half, chk, size, off, mid, hi)
             ELSE half

\* the outer loop from block_offset off: the whole routine is
\* transmute_program_rom(img, size, 0)
RECURSIVE transmute_program_rom(_, _, _)
transmute_program_rom(img, size, off) ==
    IF off < size
    THEN LET chk == read_chunk(img, size, off)
             next == inner_loop(img, chk, size, off, 0, block_count)
         IN  IF Len(next) = Len(img)
             THEN transmute_program_rom(next, size, off + block_count * block_size)
             ELSE next
    ELSE img

\* entry: base, rom_size, the constants and the temporary buffer
transmute_enter(r) ==
    /\ region' = r
    /\ rom_size' = mem[r].size
    /\ block_offset' = 0
    /\ blocks' = 0
    /\ chunk' = FreshChunk
    /\ chunk_base' = 0
    /\ srcs' = {}
    /\ copies' = 0
    /\ last' = NoCopy
    /\ pc' = "outer"

base == mem[region].data

\* the outer loop's test succeeds: copy chunk_size bytes from block_offset
\* into the temporary buffer, and enter the inner loop.  Reading past the
\* end of the region is undefined: the call faults or reads garbage.
copy_chunk ==
    /\ pc = "outer"
    /\ block_offset < rom_size
    /\ LET inb == block_offset + chunk_size <= rom_size
       IN  \/ /\ chunk' = read_chunk(base, rom_size, block_offset)
              /\ oob' = (oob \/ ~inb)
              /\ blocks' = block_count
              /\ chunk_base' = block_offset
              /\ srcs' = {}
              /\ pc' = "inner"
           \/ /\ ~inb
              /\ oob' = TRUE
              /\ pc' = "fault"
              /\ UNCHANGED <<chunk, blocks, chunk_base, srcs>>
    /\ UNCHANGED <<driver, pat, phase, call, runs, mem, region, rom_size,
                   block_offset, copies, last, after1, mvars>>

\* one iteration of the inner loop: blocks-- > 0 holds, the block at
\* block_offset is overwritten from the temporary buffer at the transmuted
\* offset, block_offset += block_size
copy_block ==
    /\ pc = "inner"
    /\ blocks > 0
    /\ LET t == transmuted_offset(block_offset)
           src_in == t + block_size <= chunk_size
           dst_in == block_offset + block_size <= rom_size
       IN  /\ mem' = [mem EXCEPT ![region].data =
                        copy_n(@, chunk, rom_size, t, block_offset, 0)]
           /\ oob' = (oob \/ ~src_in \/ ~dst_in)
           /\ srcs' = srcs \cup {t}
           /\ last' = [dst |-> block_offset, src |-> chunk_base + t, off |-> t,
                       inchunk |-> src_in]
    /\ blocks' = blocks - 1
    /\ block_offset' = block_offset + block_size
    /\ copies' = copies + 1
    /\ UNCHANGED <<driver, pat, phase, call, runs, pc, region, rom_size, chunk,
                   chunk_base, after1, mvars>>

\* the inner loop's test fails (blocks-- leaves -1): back to the outer test
inner_exit ==
    /\ pc = "inner"
    /\ blocks <= 0
    /\ blocks' = blocks - 1
    /\ pc' = "outer"
    /\ UNCHANGED <<driver, pat, phase, call, runs, mem, region, rom_size,
                   block_offset, chunk, chunk_base, srcs, copies, last, oob,
                   after1, mvars>>

\* the outer loop's test fails: the routine returns
outer_exit ==
    /\ pc = "outer"
    /\ block_offset >= rom_size
    /\ pc' = "done"
    /\ UNCHANGED <<driver, pat, phase, call, runs, mem, region, rom_size,
                   block_offset, blocks, chunk, chunk_base, srcs, copies, last,
                   oob, after1, mvars>>

\* ------------------------------------------------ the transform on its own
\* call transmute_program_rom on the region (a first, then a second time)
harness_call ==
    /\ phase = "harness"
    /\ pc = "idle"
    /\ runs["rom"] < 2
    /\ transmute_enter("rom")
    /\ UNCHANGED <<driver, pat, phase, call, runs, mem, oob, after1, mvars>>

harness_return ==
    /\ phase = "harness"
    /\ pc = "done"
    /\ pc' = "idle"
    /\ runs' = [runs EXCEPT ![region] = @ + 1]
    /\ after1' = IF runs[region] = 0 THEN base ELSE after1
    /\ UNCHANGED <<driver, pat, phase, call, mem, region, rom_size,
                   block_offset, blocks, chunk, chunk_base, srcs, copies, last,
                   oob, mvars>>

\* ------------------------------------------------------------ driver start
\* the framework starts the driver device: driver_start, then machine_start
device_start ==
    /\ phase = "config"
    /\ phase' = "driver_start"
    /\ UNCHANGED <<driver, pat, call, runs, mem, tvars, oob, after1, mvars>>

\* the next transmute_program_rom(memregion(name)) statement of driver_start.
\* memregion yields no region for a name the ROM set does not declare, and
\* region->base() on it is undefined: the process dies or the call does
\* nothing.  A chunk copy that leaves the region is undefined as well.
driver_start_call ==
    /\ phase = "driver_start"
    /\ call <= Len(driver_start_calls(driver))
    /\ LET r == driver_start_calls(driver)[call]
       IN  IF r \in DOMAIN mem /\ mem[r].size % chunk_size = 0
           THEN /\ mem' = [mem EXCEPT ![r].data =
                             transmute_program_rom(@, mem[r].size, 0)]
                /\ runs' = [runs EXCEPT ![r] = @ + 1]
                /\ call' = call + 1
                /\ UNCHANGED <<phase, oob>>
           ELSE /\ oob' = TRUE
                /\ \/ /\ phase' = "crashed"
                      /\ UNCHANGED call
                   \/ /\ call' = call + 1
                      /\ UNCHANGED phase
                /\ UNCHANGED <<mem, runs>>
    /\ UNCHANGED <<driver, pat, tvars, after1, mvars>>

\* driver_start returns
driver_start_end ==
    /\ phase = "driver_start"
    /\ call > Len(driver_start_calls(driver))
    /\ phase' = "machine_start"
    /\ UNCHANGED <<driver, pat, call, runs, mem, tvars, oob, after1, mvars>>

\* machine_start: allocate the timer and arm it
machine_start ==
    /\ phase = "machine_start"
    /\ timer' = hack_timer(now)
    /\ phase' = "running"
    /\ UNCHANGED <<driver, pat, call, runs, mem, tvars, oob, after1, now, fired,
                   MN1880_IF>>

\* --------------------------------------------------------- running machine
\* emulated time passes, never beyond the expiry of an armed timer
advance_time ==
    /\ phase = "running"
    /\ now < MaxNow
    /\ timer.armed => now < timer.expire
    /\ now' = now + 1
    /\ UNCHANGED <<driver, pat, phase, call, runs, mem, tvars, oob, after1,
                   timer, fired, MN1880_IF>>

\* the timer expires: interrupt_hack runs, and the periodic timer is
\* scheduled one period later
interrupt_hack ==
    /\ phase = "running"
    /\ timer.armed
    /\ now = timer.expire
    /\ MN1880_IF' = interrupt_hack_value(MN1880_IF) % Pow2(IFBits)
    /\ fired' = fired + 1
    /\ timer' = [timer EXCEPT !.expire = @ + timer.period]
    /\ UNCHANGED <<driver, pat, phase, call, runs, mem, tvars, oob, after1, now>>

\* the CPU sets or clears one bit of the interrupt-flag register
cpu_write_IF ==
    /\ phase = "running"
    /\ \E b \in 0..IFBits - 1 :
         MN1880_IF' = IF Bit(MN1880_IF, b) = 1 THEN MN1880_IF - Pow2(b)
                      ELSE MN1880_IF + Pow2(b)
    /\ UNCHANGED <<driver, pat, phase, call, runs, mem, tvars, oob, after1,
                   timer, now, fired>>

Next ==
    \/ device_start
    \/ driver_start_call
    \/ driver_start_end
    \/ machine_start
    \/ advance_time
    \/ interrupt_hack
    \/ cpu_write_IF

NextT ==
    \/ harness_call
    \/ copy_chunk
    \/ copy_block
    \/ inner_exit
    \/ outer_exit
    \/ harness_return

Spec == Init /\ [][Next]_vars
SpecT == InitT /\ [][NextT]_vars

\* ================================================================ claims
\* the call in progress (or just finished) works on a region whose size is
\* an exact multiple of the chunk size
WholeChunks == rom_size % 131072 = 0

\* the block offsets of one chunk
BlockOffsets == {b * 256 : b \in 0..511}

\* the permutation as the claims word it: address bits 16..8 of P(O) are
\* bits 10, 15, 11, 9, 8, 13, 14, 16, 12 of O
P(O) ==
    65536 * Bit(O, 10) + 32768 * Bit(O, 15) + 16384 * Bit(O, 11)
    + 8192 * Bit(O, 9) + 4096 * Bit(O, 8) + 2048 * Bit(O, 13)
    + 1024 * Bit(O, 14) + 512 * Bit(O, 16) + 256 * Bit(O, 12)

\* for address a = C + O + i: the address C + P(O) + i
SrcOf(a) == (a \div 131072) * 131072 + P((a % 131072) - (a % 256)) + (a % 256)

\* the byte values of an image of the region in work
Vals(img) == [k \in DOMAIN img |-> Val(region, img[k])]

\* the loop taken step by step and the routine taken as one step agree
StepsAgree ==
    (phase = "harness" /\ pc = "done" /\ runs["rom"] = 0) =>
        base = transmute_program_rom(LoadedRegion(rom_size).data, rom_size, 0)

\* C1: within a chunk the permuted source offsets of distinct block offsets
\* are distinct, and once the chunk is done every block of the chunk has been
\* the source of some destination block (the mapping is a bijection on the
\* 512 block indices).
C1_Bijection ==
    pc = "inner" =>
        /\ Cardinality(srcs) = 512 - blocks
        /\ blocks = 0 => srcs = BlockOffsets

C1_Witness ==
    /\ pc = "inner"
    /\ blocks = 0
    /\ Cardinality(srcs) = 512

\* C2: for a region of whole chunks the transform is a permutation of the
\* region's bytes: the image keeps its size, every loaded byte position is
\* found at exactly one position of the result, with its value.
C2_Permutation ==
    (phase = "harness" /\ pc = "done" /\ WholeChunks) =>
        /\ Len(base) = Cells(rom_size)
        /\ {base[k] : k \in DOMAIN base} = Tracked(rom_size)

C2_Witness ==
    /\ phase = "harness"
    /\ pc = "done"
    /\ rom_size = 131072
    /\ pat = "addr"
    /\ Vals(base) # Vals(LoadedRegion(rom_size).data)

\* C3 as stated: a second application leaves the image equal to the result
\* of the first application.
C3_Idempotent ==
    (phase = "harness" /\ runs["rom"] = 2 /\ WholeChunks) =>
        Vals(base) = Vals(after1)

\* C3 amended: the second application moves to C+O+i the byte loaded at
\* C+P(P(O))+i; its result equals the first result exactly when every byte
\* loaded at C+P(P(O))+i equals the byte loaded at C+P(O)+i.
C3_TwiceIsSquare ==
    (phase = "harness" /\ runs["rom"] = 2 /\ WholeChunks) =>
        /\ \A a \in Tracked(rom_size) : At(base, a) = SrcOf(SrcOf(a))
        /\ (Vals(base) = Vals(after1)) <=>
              \A a \in Tracked(rom_size) :
                  Val(region, SrcOf(SrcOf(a))) = Val(region, SrcOf(a))

C3_Witness ==
    /\ phase = "harness"
    /\ runs["rom"] = 2
    /\ rom_size = 131072
    /\ Vals(base) # Vals(after1)
    /\ At(base, 256) = SrcOf(SrcOf(256))

C5_TimerCadence ==
    /\ phase = "running" => timer.armed
    /\ timer.armed =>
          /\ timer.period = TicksPerMsec
          /\ timer.expire = (fired + 1) * TicksPerMsec
          /\ fired * TicksPerMsec <= now
          /\ now <= timer.expire

C5_Witness ==
    /\ phase = "running"
    /\ fired = MaxMsec
    /\ now = MaxMsec * TicksPerMsec

\* bit 3 or-ed into x
WithBit3(x) == IF Bit(x, 3) = 1 THEN x ELSE x + 8

\* C6: a run of interrupt_hack sets bit 3 of IF, keeps every other bit of IF
\* and leaves all other driver state as it was.
C6_OrBit3 ==
    [][fired' # fired =>
          /\ MN1880_IF' = WithBit3(MN1880_IF)
          /\ UNCHANGED <<driver, pat, phase, call, runs, mem, tvars, oob,
                         after1, now>>]_vars

C6_Witness ==
    /\ fired >= 2
    /\ MN1880_IF = Pow2(IFBits) - 1

\* C7: in the driver that descrambles, once driver_start is over (machine
\* start, running, or dead) the program image and the ABC image have each
\* been descrambled exactly once, and the timer is not armed before that.
C7_OncePerRegion ==
    (driver = "part_000" /\ (phase \in {"machine_start", "running", "crashed"}
                             \/ timer.armed)) =>
        /\ runs["program"] = 1
        /\ runs["abc"] = 1

\* C9: every ROM-backed entry of program_map is a non-empty range backed by
\* a declared region of at least the length of the range.
C9_MapBacked ==
    \A i \in 1..Len(program_map(driver)) :
        LET e == program_map(driver)[i]
        IN  /\ e.start <= e.end
            /\ e.region \in DOMAIN RomSet(driver)
            /\ RomSet(driver)[e.region] >= e.end - e.start + 1

\* C8: after a call on a region of whole chunks, the byte at C+O+i is the
\* byte the region held at C+P(O)+i before the call.
C8_Gather ==
    (phase = "harness" /\ pc = "done" /\ runs["rom"] = 0 /\ WholeChunks) =>
        \A a \in Tracked(rom_size) : At(base, a) = SrcOf(a)

\* blocks 0x100 and 0x1000 trade places: the source of the later one was
\* overwritten before it was read
C8_Witness ==
    /\ phase = "harness"
    /\ pc = "done"
    /\ runs["rom"] = 0
    /\ rom_size >= 131072
    /\ At(base, 256) = 4096
    /\ At(base, 4096) = 256

\* C10: on a region of whole chunks no access leaves its buffer (the source
\* block lies inside the temporary buffer, the chunk copy and the destination
\* block inside the region), and the routine returns after exactly
\* rom_size / 0x100 block copies.
C10_InBounds ==
    WholeChunks =>
        /\ ~oob
        /\ pc # "fault"
        /\ pc = "inner" => chunk_base + 131072 <= rom_size
        /\ last.dst >= 0 =>
              /\ last.off + 256 <= 131072
              /\ last.dst + 256 <= rom_size
        /\ copies * 256 = block_offset
        /\ block_offset <= rom_size
        /\ pc = "done" => copies = rom_size \div 256

C10_Witness ==
    /\ pc = "done"
    /\ rom_size = 131072
    /\ copies = 512
    /\ ~oob

====
